---------------------------- MODULE Spec2Model ----------------------------
(***************************************************************************)
(* Model of the traffic-accident pipeline:                                 *)
(*   manage_csv.py        year-file loader, coordinate transformer, merger *)
(*   csv_to_json.py       exporter (CSV -> compact JSON -> gzip)           *)
(*   download_data.py     fetcher (one archive per year)                   *)
(*   data/fix_encoding.py encoding normalizer                              *)
(*                                                                         *)
(* Text is a sequence of one-character strings.  An optional value is a    *)
(* sequence of length 0 (None / NaN) or 1 (the value).                     *)
(***************************************************************************)
EXTENDS Integers, Sequences, FiniteSets, TLC

VARIABLES
    \* ---- manage_csv.py, module configuration
    SPECIFIC_YEARS,     \* set of years
    START_YEAR,         \* optional year
    END_YEAR,           \* optional year
    \* ---- manage_csv.py, one call of process_file / convert_coordinates_batch
    cv_pc,              \* "ready" | "converted" | "processed"
    cv_file,            \* the file handed to the call
    cv_year,            \* the year handed to the call
    cv_raised,          \* whether the transformation raised in the call
    cv_out,             \* optional dataframe returned by the call
    cv_console,         \* what the call printed
    \* ---- manage_csv.py, merge_all_files
    folder_exists,      \* os.path.exists(data_folder)
    listing,            \* the names glob.glob(pattern) matches
    csv_files,          \* sorted(listing)
    m_pc,               \* "start" | "loop" | "merge" | "done"
    m_i,                \* position of the for loop in csv_files
    dfs,                \* list of dataframes
    years_processed,    \* list of years
    console,            \* one diagnostic record per visited file
    m_read,             \* per visited file: what the file system and the transformer gave
    output,             \* optional dataframe: the content of OUTPUT_FILE
    writes,             \* number of to_csv calls on OUTPUT_FILE
    m_result,           \* optional BOOLEAN: the value merge_all_files returned
    \* ---- csv_to_json.py
    x_pc,               \* "ready" | "written" | "read"
    x_csv,              \* rows of the merged CSV (text cells)
    x_gz,               \* optional compressed file content
    x_back,             \* optional parsed-back list of objects
    \* ---- download_data.py
    f_year,             \* loop variable
    f_pc,               \* "download" | "unzip" | "delete" | "done"
    f_attempts,         \* years whose download was attempted, in order
    f_zips,             \* archives present in OUTPUT_DIR
    f_extracted,        \* years whose archive was extracted
    f_errors,           \* the error lines printed: year and kind
    \* ---- data/fix_encoding.py
    fx_disk,            \* file name -> content
    fx_orig,            \* file name -> content before the script ran
    fx_todo,            \* files of csv_files not yet visited
    fx_used,            \* file name -> optional encoding printed as used
    fx_pc               \* "start" | "loop" | "done"

cfgVars == <<SPECIFIC_YEARS, START_YEAR, END_YEAR>>
cvVars == <<cv_pc, cv_file, cv_year, cv_raised, cv_out, cv_console>>
mVars == <<folder_exists, listing, csv_files, m_pc, m_i, dfs, years_processed,
           console, m_read, output, writes, m_result>>
xVars == <<x_pc, x_csv, x_gz, x_back>>
fVars == <<f_year, f_pc, f_attempts, f_zips, f_extracted, f_errors>>
fxVars == <<fx_disk, fx_orig, fx_todo, fx_used, fx_pc>>
vars == <<cfgVars, cvVars, mVars, xVars, fVars, fxVars>>

(***************************************************************************)
(* Bounds of the model.                                                    *)
(***************************************************************************)
MaxRows == 2          \* rows of the file handed to one process_file call
MaxFiles == 3         \* files in the data folder
MaxExportRows == 2    \* rows of the CSV handed to the exporter
MaxFetchYears == 3    \* length of the fetcher's year range
MaxFixFiles == 2      \* CSV files in the encoding fixer's directory

(***************************************************************************)
(* Text and optional values.                                               *)
(***************************************************************************)
None == <<>>
Some(v) == <<v>>

Digits == <<"0", "1", "2", "3", "4", "5", "6", "7", "8", "9">>
IsDigit(c) == \E k \in 1..10 : Digits[k] = c
DigitVal(c) == (CHOOSE k \in 1..10 : Digits[k] = c) - 1

RECURSIVE DigitsToInt(_)
DigitsToInt(s) ==
    IF s = <<>> THEN 0
    ELSE 10 * DigitsToInt(SubSeq(s, 1, Len(s) - 1)) + DigitVal(s[Len(s)])

RECURSIVE IntToDigits(_)
IntToDigits(n) ==
    IF n < 10 THEN <<Digits[n + 1]>>
    ELSE IntToDigits(n \div 10) \o <<Digits[(n % 10) + 1]>>


(***************************************************************************)
(* manage_csv.py: get_year_from_filename.                                  *)
(***************************************************************************)
\* re.search(r'pn(\d{4})', filename) matching at position k
MatchesAt(s, k) ==
    /\ k + 5 <= Len(s)
    /\ s[k] = "p"
    /\ s[k + 1] = "n"
    /\ \A j \in 2..5 : IsDigit(s[k + j])

get_year_from_filename(filename) ==
    LET hits == {k \in 1..Len(filename) : MatchesAt(filename, k)}
    IN  IF hits = {} THEN None
        ELSE LET k == CHOOSE h \in hits : \A g \in hits : h <= g
             IN  Some(DigitsToInt(SubSeq(filename, k + 2, k + 5)))

(***************************************************************************)
(* manage_csv.py: the year filter at the head of process_file.  TRUE when  *)
(* none of the three early returns is taken.                               *)
(***************************************************************************)
YearSelected(year) ==
    /\ ~(SPECIFIC_YEARS # {} /\ year \notin SPECIFIC_YEARS)
    /\ ~(START_YEAR # None /\ year < START_YEAR[1])
    /\ ~(END_YEAR # None /\ year > END_YEAR[1])

(***************************************************************************)
(* Ordered encoding fallback: the first candidate that decodes.            *)
(* `decodable` is the set of encodings under which the file reads without  *)
(* error.                                                                  *)
(***************************************************************************)
LoaderEncodings == <<"utf-8", "iso-8859-2", "windows-1250", "cp1250">>
encodings_to_try == <<"utf-8", "windows-1250", "iso-8859-2", "cp1250">>
Encodings == {"utf-8", "iso-8859-2", "windows-1250", "cp1250"}

FirstDecodable(candidates, decodable) ==
    LET ok == {k \in 1..Len(candidates) : candidates[k] \in decodable}
    IN  IF ok = {} THEN None
        ELSE Some(candidates[CHOOSE k \in ok : \A j \in ok : k <= j])

(***************************************************************************)
(* Dataframes.  A dataframe is [columns, rows]; a row carries every field, *)
(* and a field whose column is not in `columns` holds its missing value.   *)
(***************************************************************************)
ColId == "ZaporednaStevilkaPN"
ColX == "GeoKoordinataX"
ColY == "GeoKoordinataY"

Row(id, x, y) ==
    [ZaporednaStevilkaPN |-> id, GeoKoordinataX |-> x, GeoKoordinataY |-> y,
     year |-> None, latitude |-> None, longitude |-> None]

\* df['year'] = year
AddYear(df, year) ==
    [columns |-> df.columns \cup {"year"},
     rows |-> [k \in 1..Len(df.rows) |-> [df.rows[k] EXCEPT !.year = Some(year)]]]

(***************************************************************************)
(* manage_csv.py: convert_coordinates_batch.                               *)
(***************************************************************************)
\* Series.astype(str): a missing cell prints as "nan"
AsStr(cell) == IF cell = <<>> THEN <<"n", "a", "n">> ELSE cell

RECURSIVE LStrip(_)
LStrip(s) == IF s # <<>> /\ Head(s) = " " THEN LStrip(Tail(s)) ELSE s

RECURSIVE RStrip(_)
RStrip(s) ==
    IF s # <<>> /\ s[Len(s)] = " " THEN RStrip(SubSeq(s, 1, Len(s) - 1)) ELSE s

Strip(s) == RStrip(LStrip(s))

\* pd.to_numeric(errors='coerce') on one text: digits parse, the rest is NaN
to_numeric(s) ==
    IF s # <<>> /\ \A k \in 1..Len(s) : IsDigit(s[k])
    THEN Some(DigitsToInt(s))
    ELSE None

\* astype(str).str.strip(), replace(['', ' '], nan), to_numeric
Coerce(cell) ==
    LET s == Strip(AsStr(cell))
    IN  IF s \in {<<>>, <<" ">>} THEN None ELSE to_numeric(s)

\* (x != 0) & (y != 0) & x.notna() & y.notna()
ValidPair(x, y) == x # Some(0) /\ y # Some(0) /\ x # None /\ y # None

RECURSIVE Compress(_, _)
Compress(s, mask) ==
    IF s = <<>> THEN <<>>
    ELSE (IF Head(mask) THEN <<Head(s)>> ELSE <<>>) \o Compress(Tail(s), Tail(mask))

\* position, among the selected entries, of entry i of the mask
Rank(mask, i) == Cardinality({k \in 1..i : mask[k]})

\* Transformer.from_crs("EPSG:3794", "EPSG:4326", always_xy=True).transform:
\* an affine stand-in for the projection; the first operand (easting) gives
\* the longitude, the second (northing) the latitude.
TransformPoint(xx, yy) == [lon |-> 12 + xx, lat |-> 44 + yy]

transform(xx, yy) == [k \in 1..Len(xx) |-> TransformPoint(xx[k][1], yy[k][1])]

TransformBatchSwapped(valid_x, valid_y) == transform(valid_x, valid_y)

\* lons, lats = transformer.transform(valid_y, valid_x)
TransformBatch(valid_x, valid_y) == transform(valid_y, valid_x)

\* df.loc[valid_mask, 'longitude'] = lons; df.loc[valid_mask, 'latitude'] = lats
PutBack(rows, valid_mask, pts) ==
    [k \in 1..Len(rows) |->
        IF valid_mask[k]
        THEN LET p == pts[Rank(valid_mask, k)]
             IN  [rows[k] EXCEPT !.longitude = Some(p.lon), !.latitude = Some(p.lat)]
        ELSE [rows[k] EXCEPT !.longitude = None, !.latitude = None]]

\* `raises`: whether the try block (from_crs / transform) raises in this call
convert_coordinates_batch(df, raises) ==
    IF ColX \notin df.columns \/ ColY \notin df.columns THEN df
    ELSE
        LET n == Len(df.rows)
            x_coords == [k \in 1..n |-> Coerce(df.rows[k].GeoKoordinataX)]
            y_coords == [k \in 1..n |-> Coerce(df.rows[k].GeoKoordinataY)]
            valid_mask == [k \in 1..n |-> ValidPair(x_coords[k], y_coords[k])]
            cols == df.columns \cup {"latitude", "longitude"}
            blank == [k \in 1..n |->
                        [df.rows[k] EXCEPT !.latitude = None, !.longitude = None]]
        IN  IF \A k \in 1..n : ~valid_mask[k] THEN [columns |-> cols, rows |-> blank]
            ELSE IF raises THEN [columns |-> cols, rows |-> blank]
            ELSE [columns |-> cols,
                  rows |-> PutBack(blank, valid_mask,
                                   TransformBatch(Compress(x_coords, valid_mask),
                                                  Compress(y_coords, valid_mask)))]

\* whether the call reaches the transformation (so that it can raise)
ReachesTransform(df) ==
    /\ ColX \in df.columns /\ ColY \in df.columns
    /\ \E k \in 1..Len(df.rows) :
          ValidPair(Coerce(df.rows[k].GeoKoordinataX), Coerce(df.rows[k].GeoKoordinataY))

(***************************************************************************)
(* manage_csv.py: process_file.                                            *)
(***************************************************************************)
HasCoords(r) == r.latitude # None /\ r.longitude # None

dropnaNothing(df) == df

\* df.dropna(subset=['latitude', 'longitude'])
dropna(df) == [columns |-> df.columns, rows |-> SelectSeq(df.rows, HasCoords)]

\* the bounds check for Slovenia (a comparison with NaN is False)
OutsideSlovenia(r) ==
    \/ r.latitude # None /\ (r.latitude[1] < 45 \/ r.latitude[1] > 47)
    \/ r.longitude # None /\ (r.longitude[1] < 13 \/ r.longitude[1] > 16)

\* the dataframe after the year column and the coordinate conversion
Loaded(file, year, raises) ==
    LET df == AddYear(file.df, year)
    IN  IF ColX \in df.columns /\ ColY \in df.columns
        THEN dropna(convert_coordinates_batch(df, raises))
        ELSE df

\* the encoding loop: the first encoding pd.read_csv accepts
ReadEncoding(file) == FirstDecodable(LoaderEncodings, file.decodable)

process_file_discarding(file, year, raises) ==
    IF ~YearSelected(year) THEN None
    ELSE IF ReadEncoding(file) = None THEN None
    ELSE IF raises THEN None
    ELSE Some(Loaded(file, year, raises))

\* the value process_file returns: None or a dataframe (the outer except
\* clause is not reached: the conversion catches its own error)
process_file(file, year, raises) ==
    IF ~YearSelected(year) THEN None
    ELSE IF ReadEncoding(file) = None THEN None
    ELSE Some(Loaded(file, year, raises))

\* what process_file prints for the call
process_file_console(file, year, raises) ==
    IF ~YearSelected(year) THEN [event |-> "filtered", loaded |-> 0, skipped |-> 0, outside |-> 0]
    ELSE IF ReadEncoding(file) = None
    THEN [event |-> "unreadable", loaded |-> 0, skipped |-> 0, outside |-> 0]
    ELSE LET df == AddYear(file.df, year)
             out == Loaded(file, year, raises)
             rows_before == Len(df.rows)
             rows_after == Len(out.rows)
         IN  IF ColX \in df.columns /\ ColY \in df.columns
             THEN [event |-> "loaded", loaded |-> rows_after,
                   skipped |-> rows_before - rows_after,
                   outside |-> Len(SelectSeq(out.rows, OutsideSlovenia))]
             ELSE [event |-> "loaded", loaded |-> Len(df.rows), skipped |-> 0,
                   outside |-> 0]

(***************************************************************************)
(* manage_csv.py: merge_all_files, the pure parts.                         *)
(***************************************************************************)
\* the characters of the file names, in code-point order
Alphabet ==
    <<".", "0", "1", "2", "3", "4", "5", "6", "7", "8", "9",
      "b", "c", "n", "p", "s", "v">>
Ord(c) == CHOOSE k \in 1..Len(Alphabet) : Alphabet[k] = c

RECURSIVE StrLess(_, _)
StrLess(a, b) ==
    IF a = <<>> THEN b # <<>>
    ELSE IF b = <<>> THEN FALSE
    ELSE IF Head(a) = Head(b) THEN StrLess(Tail(a), Tail(b))
    ELSE Ord(Head(a)) < Ord(Head(b))

\* sorted(glob.glob(pattern))
RECURSIVE sorted(_)
sorted(S) ==
    IF S = {} THEN <<>>
    ELSE LET m == CHOOSE x \in S : \A y \in S \ {x} : StrLess(x, y)
         IN  <<m>> \o sorted(S \ {m})

NothingProcessedNever(d) == FALSE

\* `if not dfs`
NothingProcessed(d) == d = <<>>

RECURSIVE ConcatRows(_)
ConcatRows(d) == IF d = <<>> THEN <<>> ELSE Head(d).rows \o ConcatRows(Tail(d))

\* pd.concat(dfs, ignore_index=True)
concat(d) ==
    [columns |-> UNION {d[k].columns : k \in 1..Len(d)}, rows |-> ConcatRows(d)]

SameKey(r, q) ==
    r.year = q.year /\ r.ZaporednaStevilkaPN = q.ZaporednaStevilkaPN

KeepLast(rows, k) == \A j \in (k + 1)..Len(rows) : ~SameKey(rows[j], rows[k])

\* keep='first': row k stays when no earlier row has its key
KeepFirst(rows, k) == \A j \in 1..(k - 1) : ~SameKey(rows[j], rows[k])

\* merged.drop_duplicates(subset=['year', 'ZaporednaStevilkaPN']), guarded
drop_duplicates(df) ==
    IF ColId \in df.columns /\ "year" \in df.columns
    THEN [columns |-> df.columns,
          rows |-> Compress(df.rows, [k \in 1..Len(df.rows) |-> KeepFirst(df.rows, k)])]
    ELSE df

\* the loop position after a file that is skipped (`continue`)
AfterSkipBreak(i, n) == n + 1

AfterSkip(i, n) == i + 1

(***************************************************************************)
(* Values the variables of a script hold while another script is modelled. *)
(***************************************************************************)
SeqsUpTo(S, n) == UNION {[1..k -> S] : k \in 0..n}

NoFile == [decodable |-> {}, df |-> [columns |-> {}, rows |-> <<>>]]
NoConsole == [event |-> "none", loaded |-> 0, skipped |-> 0, outside |-> 0]

DefaultConfig ==
    /\ SPECIFIC_YEARS = {}
    /\ START_YEAR = Some(2015)
    /\ END_YEAR = Some(2024)

IdleConvert ==
    /\ cv_pc = "idle" /\ cv_file = NoFile /\ cv_year = 0
    /\ cv_raised = FALSE /\ cv_out = None /\ cv_console = NoConsole

IdleMerge ==
    /\ folder_exists = FALSE /\ listing = {} /\ csv_files = <<>>
    /\ m_pc = "idle" /\ m_i = 0 /\ dfs = <<>> /\ years_processed = <<>>
    /\ console = <<>> /\ m_read = <<>> /\ output = None /\ writes = 0
    /\ m_result = None

IdleExport == x_pc = "idle" /\ x_csv = <<>> /\ x_gz = None /\ x_back = None

IdleFetch ==
    /\ f_year = 0 /\ f_pc = "idle" /\ f_attempts = <<>> /\ f_zips = {}
    /\ f_extracted = {} /\ f_errors = <<>>

IdleFix ==
    /\ fx_disk = <<>> /\ fx_orig = <<>> /\ fx_todo = {} /\ fx_used = <<>>
    /\ fx_pc = "idle"

(***************************************************************************)
(* Calls of convert_coordinates_batch and process_file on one file.        *)
(***************************************************************************)
\* raw cell texts of a coordinate column
CoordCells == {<<>>, <<" ">>, <<"a", "b">>, <<"0">>, <<"1">>, <<" ", "5">>}

\* read_csv results: ZaporednaStevilkaPN numbers the rows of a file
CoordTables ==
    {[columns |-> {ColId, ColX, ColY},
      rows |-> [k \in 1..Len(c) |-> Row(Some(k), c[k][1], c[k][2])]] :
        c \in SeqsUpTo(CoordCells \X CoordCells, MaxRows)}

PlainTables ==
    {[columns |-> cols, rows |-> [k \in 1..n |-> Row(Some(k), <<>>, <<>>)]] :
        cols \in {{ColId}}, n \in 0..MaxRows}
    \cup {[columns |-> {ColId, ColX}, rows |-> <<Row(Some(1), <<"1">>, <<>>)>>]}

ConvInit ==
    /\ DefaultConfig
    /\ cv_pc = "ready"
    /\ cv_file \in {[decodable |-> {"iso-8859-2", "windows-1250", "cp1250"}, df |-> t] :
                        t \in CoordTables \cup PlainTables}
    /\ cv_year \in {2015, 2016}
    /\ cv_raised = FALSE
    /\ cv_out = None
    /\ cv_console = NoConsole
    /\ IdleMerge /\ IdleExport /\ IdleFetch /\ IdleFix

CallConvert ==
    /\ cv_pc = "ready"
    /\ \E raises \in BOOLEAN :
        /\ raises => ReachesTransform(cv_file.df)
        /\ cv_raised' = raises
        /\ cv_out' = Some(convert_coordinates_batch(cv_file.df, raises))
    /\ cv_pc' = "converted"
    /\ UNCHANGED <<cv_file, cv_year, cv_console>>
    /\ UNCHANGED <<cfgVars, mVars, xVars, fVars, fxVars>>

CallProcessFile ==
    /\ cv_pc = "ready"
    /\ \E raises \in BOOLEAN :
        /\ raises => ReachesTransform(cv_file.df)
        /\ cv_raised' = raises
        /\ cv_out' = process_file(cv_file, cv_year, raises)
        /\ cv_console' = process_file_console(cv_file, cv_year, raises)
    /\ cv_pc' = "processed"
    /\ UNCHANGED <<cv_file, cv_year>>
    /\ UNCHANGED <<cfgVars, mVars, xVars, fVars, fxVars>>

ConvNext == CallConvert \/ CallProcessFile

SpecConvert == ConvInit /\ [][ConvNext]_vars

(***************************************************************************)
(* Claims about convert_coordinates_batch and process_file (SpecConvert).  *)
(***************************************************************************)
\* the number a raw coordinate cell stands for, stated cell by cell:
\* empty and non-numeric cells stand for none
CellNumber(cell) ==
    CASE cell = <<"0">> -> Some(0)
      [] cell = <<"1">> -> Some(1)
      [] cell = <<" ", "5">> -> Some(5)
      [] OTHER -> None

PairUsable(r) ==
    /\ CellNumber(r.GeoKoordinataX) \notin {None, Some(0)}
    /\ CellNumber(r.GeoKoordinataY) \notin {None, Some(0)}

BothCoordColumns(df) == ColX \in df.columns /\ ColY \in df.columns

\* C5: convert_coordinates_batch keeps the number and the positions of the
\* rows; a row whose X or Y cell is empty, non-numeric or zero has latitude
\* and longitude missing; any other row, when the transformation does not
\* raise, carries the longitude/latitude computed from its own pair with the
\* operands passed as (Y, X).
C5_ConvertKeepsRowsAndPairs ==
    (cv_pc = "converted" /\ BothCoordColumns(cv_file.df)) =>
        LET in == cv_file.df.rows
            out == cv_out[1].rows
        IN  /\ Len(out) = Len(in)
            /\ \A k \in 1..Len(in) :
                /\ out[k].ZaporednaStevilkaPN = in[k].ZaporednaStevilkaPN
                /\ out[k].GeoKoordinataX = in[k].GeoKoordinataX
                /\ out[k].GeoKoordinataY = in[k].GeoKoordinataY
                /\ ~PairUsable(in[k]) =>
                      out[k].latitude = None /\ out[k].longitude = None
                /\ (PairUsable(in[k]) /\ ~cv_raised) =>
                      LET p == TransformPoint(CellNumber(in[k].GeoKoordinataY)[1],
                                              CellNumber(in[k].GeoKoordinataX)[1])
                      IN  /\ out[k].longitude = Some(p.lon)
                          /\ out[k].latitude = Some(p.lat)

\* a converted two-row file: an unusable first row, then a usable row whose
\* X and Y differ
C5_Witness ==
    /\ cv_pc = "converted" /\ ~cv_raised
    /\ Len(cv_file.df.rows) = 2
    /\ BothCoordColumns(cv_file.df)
    /\ ~PairUsable(cv_file.df.rows[1])
    /\ cv_file.df.rows[2].GeoKoordinataX = <<"1">>
    /\ cv_file.df.rows[2].GeoKoordinataY = <<" ", "5">>
    /\ cv_out[1].rows[2].latitude = Some(45)
    /\ cv_out[1].rows[2].longitude = Some(17)

\* the k-th smallest element of a finite set of numbers
RECURSIVE Nth(_, _)
Nth(S, k) ==
    LET m == CHOOSE x \in S : \A y \in S : x <= y
    IN  IF k = 1 THEN m ELSE Nth(S \ {m}, k - 1)

\* C9: for a file with both coordinate columns process_file returns exactly
\* the input rows whose latitude and longitude are both present after the
\* transformation, in the original order, each with the year of the file
\* name; the skipped count printed is rows-before minus rows-after; rows
\* outside the bounds of Slovenia are kept.
C9_ProcessFileKeepsRowsWithCoordinates ==
    (cv_pc = "processed" /\ BothCoordColumns(cv_file.df)) =>
        LET in == cv_file.df.rows
            conv == convert_coordinates_batch(AddYear(cv_file.df, cv_year), cv_raised).rows
            keep == {k \in 1..Len(in) : conv[k].latitude # None /\ conv[k].longitude # None}
            out == cv_out[1].rows
        IN  /\ cv_out # None
            /\ Len(out) = Cardinality(keep)
            /\ \A j \in 1..Len(out) :
                /\ out[j] = conv[Nth(keep, j)]
                /\ out[j].ZaporednaStevilkaPN = in[Nth(keep, j)].ZaporednaStevilkaPN
                /\ out[j].year = Some(cv_year)
            /\ cv_console.skipped = Len(in) - Len(out)
            /\ cv_console.loaded = Len(out)
            /\ \A k \in keep : OutsideSlovenia(conv[k]) =>
                  \E j \in 1..Len(out) : out[j] = conv[k]
            /\ cv_console.outside = Cardinality({k \in keep : OutsideSlovenia(conv[k])})

\* a processed two-row file: the first row is dropped, the second lies
\* outside the bounds and is kept
C9_Witness ==
    /\ cv_pc = "processed" /\ BothCoordColumns(cv_file.df)
    /\ Len(cv_file.df.rows) = 2
    /\ cv_out # None
    /\ Len(cv_out[1].rows) = 1
    /\ cv_out[1].rows[1].ZaporednaStevilkaPN = Some(2)
    /\ OutsideSlovenia(cv_out[1].rows[1])
    /\ cv_console.skipped = 1
    /\ cv_console.outside = 1

(***************************************************************************)
(* merge_all_files.                                                        *)
(***************************************************************************)
FileNames ==
    {<<"p", "n", "2", "0", "1", "0", ".", "c", "s", "v">>,
     <<"p", "n", "2", "0", "1", "5", ".", "c", "s", "v">>,
     <<"p", "n", "2", "0", "1", "5", "b", ".", "c", "s", "v">>,
     <<"p", "n", "2", "0", "2", "4", ".", "c", "s", "v">>,
     <<"p", "n", "1", "9", "9", ".", "c", "s", "v">>}

Readable(t) == [decodable |-> {"iso-8859-2", "windows-1250", "cp1250"}, df |-> t]

\* contents a data file may have
MergeFiles ==
    { [decodable |-> {}, df |-> [columns |-> {}, rows |-> <<>>]],
      \* the same record number twice in one file
      Readable([columns |-> {ColId, ColX, ColY},
                rows |-> <<Row(Some(1), <<"1">>, <<"1">>), Row(Some(1), <<"1">>, <<" ", "5">>)>>]),
      Readable([columns |-> {ColId, ColX, ColY},
                rows |-> <<Row(Some(1), <<" ", "5">>, <<"1">>), Row(Some(2), <<"1">>, <<"1">>)>>]),
      \* a row without usable coordinates
      Readable([columns |-> {ColId, ColX, ColY},
                rows |-> <<Row(Some(2), <<"0">>, <<"1">>), Row(Some(1), <<"1">>, <<"1">>)>>]),
      \* no record-number column
      Readable([columns |-> {ColX, ColY},
                rows |-> <<Row(None, <<"1">>, <<"1">>), Row(None, <<" ", "5">>, <<"1">>)>>]),
      \* no coordinate columns
      Readable([columns |-> {ColId},
                rows |-> <<Row(Some(1), <<>>, <<>>), Row(Some(1), <<>>, <<>>)>>]) }

Configs ==
    /\ SPECIFIC_YEARS \in {{}, {2010}}
    /\ START_YEAR \in {None, Some(2015)}
    /\ END_YEAR \in {None, Some(2020)}

MergeInit ==
    /\ Configs
    /\ folder_exists \in BOOLEAN
    /\ listing \in {S \in SUBSET FileNames : Cardinality(S) <= MaxFiles}
    /\ ~folder_exists => listing = {}
    /\ csv_files = <<>>
    /\ m_pc = "start" /\ m_i = 0 /\ dfs = <<>> /\ years_processed = <<>>
    /\ console = <<>> /\ m_read = <<>> /\ output = None /\ writes = 0
    /\ m_result = None
    /\ IdleConvert /\ IdleExport /\ IdleFetch /\ IdleFix

\* os.path.exists(data_folder) is false
FolderMissing ==
    /\ m_pc = "start" /\ ~folder_exists
    /\ m_result' = Some(FALSE) /\ m_pc' = "done"
    /\ UNCHANGED <<folder_exists, listing, csv_files, m_i, dfs, years_processed,
                   console, m_read, output, writes>>
    /\ UNCHANGED <<cfgVars, cvVars, xVars, fVars, fxVars>>

\* no pn*.csv file
NoFilesFound ==
    /\ m_pc = "start" /\ folder_exists /\ sorted(listing) = <<>>
    /\ csv_files' = sorted(listing)
    /\ m_result' = Some(FALSE) /\ m_pc' = "done"
    /\ UNCHANGED <<folder_exists, listing, m_i, dfs, years_processed,
                   console, m_read, output, writes>>
    /\ UNCHANGED <<cfgVars, cvVars, xVars, fVars, fxVars>>

StartLoop ==
    /\ m_pc = "start" /\ folder_exists /\ sorted(listing) # <<>>
    /\ csv_files' = sorted(listing)
    /\ m_pc' = "loop" /\ m_i' = 1
    /\ UNCHANGED <<folder_exists, listing, dfs, years_processed,
                   console, m_read, output, writes, m_result>>
    /\ UNCHANGED <<cfgVars, cvVars, xVars, fVars, fxVars>>

\* one pass of the for loop: the year cannot be extracted
SkipNoYear ==
    /\ m_pc = "loop" /\ m_i <= Len(csv_files)
    /\ get_year_from_filename(csv_files[m_i]) = None
    /\ console' = Append(console, [name |-> csv_files[m_i], event |-> "no_year",
                                   loaded |-> 0, skipped |-> 0, outside |-> 0])
    /\ m_read' = Append(m_read, [name |-> csv_files[m_i], file |-> NoFile, raises |-> FALSE])
    /\ m_i' = AfterSkip(m_i, Len(csv_files))
    /\ UNCHANGED <<folder_exists, listing, csv_files, m_pc, dfs, years_processed,
                   output, writes, m_result>>
    /\ UNCHANGED <<cfgVars, cvVars, xVars, fVars, fxVars>>

\* one pass of the for loop: process_file is called
ProcessOne ==
    /\ m_pc = "loop" /\ m_i <= Len(csv_files)
    /\ get_year_from_filename(csv_files[m_i]) # None
    /\ LET year == get_year_from_filename(csv_files[m_i])[1]
       IN  \E file \in MergeFiles, raises \in BOOLEAN :
            /\ raises => /\ YearSelected(year)
                         /\ ReadEncoding(file) # None
                         /\ ReachesTransform(file.df)
            /\ LET df == process_file(file, year, raises)
                   out == process_file_console(file, year, raises)
               IN  /\ dfs' = IF df # None THEN Append(dfs, df[1]) ELSE dfs
                   /\ years_processed' =
                        IF df # None THEN Append(years_processed, year)
                        ELSE years_processed
                   /\ console' = Append(console,
                        [name |-> csv_files[m_i], event |-> out.event,
                         loaded |-> out.loaded, skipped |-> out.skipped,
                         outside |-> out.outside])
            /\ m_read' = Append(m_read,
                        [name |-> csv_files[m_i], file |-> file, raises |-> raises])
    /\ m_i' = m_i + 1
    /\ UNCHANGED <<folder_exists, listing, csv_files, m_pc, output, writes, m_result>>
    /\ UNCHANGED <<cfgVars, cvVars, xVars, fVars, fxVars>>

\* after the loop: no file was processed
NoneSucceeded ==
    /\ m_pc = "loop" /\ m_i > Len(csv_files)
    /\ NothingProcessed(dfs)
    /\ m_result' = Some(FALSE) /\ m_pc' = "done"
    /\ UNCHANGED <<folder_exists, listing, csv_files, m_i, dfs, years_processed,
                   console, m_read, output, writes>>
    /\ UNCHANGED <<cfgVars, cvVars, xVars, fVars, fxVars>>

\* after the loop: concat, drop_duplicates, to_csv, summary
MergeAndSave ==
    /\ m_pc = "loop" /\ m_i > Len(csv_files)
    /\ ~NothingProcessed(dfs)
    /\ output' = Some(drop_duplicates(concat(dfs)))
    /\ writes' = writes + 1
    /\ m_result' = Some(TRUE) /\ m_pc' = "done"
    /\ UNCHANGED <<folder_exists, listing, csv_files, m_i, dfs, years_processed,
                   console, m_read>>
    /\ UNCHANGED <<cfgVars, cvVars, xVars, fVars, fxVars>>

MergeNext ==
    \/ FolderMissing \/ NoFilesFound \/ StartLoop
    \/ SkipNoYear \/ ProcessOne
    \/ NoneSucceeded \/ MergeAndSave

SpecMerge == MergeInit /\ [][MergeNext]_vars

(***************************************************************************)
(* Claims about merge_all_files (SpecMerge).                               *)
(***************************************************************************)
Visited == 1..Len(console)
NameYear(k) == get_year_from_filename(console[k].name)
LoadedUpTo(k) == Cardinality({i \in 1..k : console[i].event = "loaded"})
MergeDone == m_pc = "done" /\ folder_exists /\ listing # {}

\* C1: in the merged output no two rows share (year, ZaporednaStevilkaPN),
\* every pair of the concatenated input is present, the row kept for a pair
\* is its first row in concatenation order, and the concatenation follows the
\* ascending file-name order.
C1_MergedKeysUniqueFirstWins ==
    (m_pc = "done" /\ m_result = Some(TRUE) /\ ColId \in output[1].columns) =>
        LET cat == ConcatRows(dfs)
            merged == output[1].rows
            First(r) == CHOOSE j \in 1..Len(cat) :
                            /\ SameKey(cat[j], r)
                            /\ \A i \in 1..(j - 1) : ~SameKey(cat[i], r)
        IN  /\ \A a, b \in 1..Len(merged) : a # b => ~SameKey(merged[a], merged[b])
            /\ \A k \in 1..Len(cat) :
                  \E a \in 1..Len(merged) : merged[a] = cat[First(cat[k])]
            /\ \A a \in 1..Len(merged) :
                  /\ \E k \in 1..Len(cat) : SameKey(cat[k], merged[a])
                  /\ merged[a] = cat[First(merged[a])]
            /\ \A a, b \in 1..Len(merged) :
                  a < b => First(merged[a]) < First(merged[b])
            /\ \A i, j \in Visited : i < j => StrLess(console[i].name, console[j].name)
            /\ Len(dfs) = LoadedUpTo(Len(console))
            /\ \A k \in Visited : console[k].event = "loaded" =>
                  dfs[LoadedUpTo(k)] =
                      Loaded(m_read[k].file, NameYear(k)[1], m_read[k].raises)

\* two files of one year were merged, a record number of the first file
\* comes again in the second with other coordinates, and the output has
\* fewer rows than the concatenation
C1_Witness ==
    /\ m_pc = "done" /\ m_result = Some(TRUE)
    /\ ColId \in output[1].columns
    /\ Len(dfs) = 2
    /\ years_processed = <<2015, 2015>>
    /\ \E a \in 1..Len(dfs[1].rows), b \in 1..Len(dfs[2].rows) :
          /\ SameKey(dfs[1].rows[a], dfs[2].rows[b])
          /\ dfs[1].rows[a].latitude # dfs[2].rows[b].latitude
    /\ Len(output[1].rows) < Len(ConcatRows(dfs))

\* C2: with SPECIFIC_YEARS non-empty, the file of year y is processed if and
\* only if y is in SPECIFIC_YEARS, whatever START_YEAR and END_YEAR are.
C2_ExplicitYearsTakePrecedence ==
    SPECIFIC_YEARS # {} =>
        \A k \in Visited : NameYear(k) # None =>
            (console[k].event # "filtered" <=> NameYear(k)[1] \in SPECIFIC_YEARS)

\* C3: the output file is written at most once, only after every file was
\* visited and only if a file was processed; with the folder missing, no
\* matching file or no processed file the run returns False and writes
\* nothing.
C3_WriteOnceAtEndOnlyOnSuccess ==
    /\ writes <= 1
    /\ writes = 0 => output = None
    /\ writes = 1 =>
          /\ m_pc = "done" /\ m_result = Some(TRUE) /\ output # None
          /\ Len(console) = Len(csv_files)
          /\ \A k \in Visited : console[k].name = csv_files[k]
          /\ \E k \in Visited : console[k].event = "loaded"
    /\ (m_pc = "done" /\ (~folder_exists \/ listing = {}
                          \/ \A k \in Visited : console[k].event # "loaded")) =>
          m_result = Some(FALSE) /\ writes = 0 /\ output = None
    /\ m_pc # "done" => m_result = None

\* every file was visited, none processed, the run returned False unwritten
C3_Witness ==
    /\ m_pc = "done" /\ Len(csv_files) = 2 /\ Len(console) = 2
    /\ m_result = Some(FALSE) /\ writes = 0 /\ output = None

\* a file is bad when its year cannot be extracted or no encoding reads it
BadFile(k) == NameYear(k) = None \/ ReadEncoding(m_read[k].file) = None

\* the list of dataframes of a run over the visited files without the bad ones
RECURSIVE RunWithoutBad(_)
RunWithoutBad(reads) ==
    IF reads = <<>> THEN <<>>
    ELSE LET e == Head(reads)
             y == get_year_from_filename(e.name)
         IN  (IF y = None \/ ReadEncoding(e.file) = None THEN <<>>
              ELSE LET df == process_file(e.file, y[1], e.raises)
                   IN  IF df = None THEN <<>> ELSE <<df[1]>>)
             \o RunWithoutBad(Tail(reads))

IsGoodRead(e) ==
    get_year_from_filename(e.name) # None /\ ReadEncoding(e.file) # None

C4_Common ==
    /\ Len(console) = Len(csv_files) /\ Len(m_read) = Len(csv_files)
    /\ \A k \in Visited : console[k].name = csv_files[k] /\ m_read[k].name = csv_files[k]
    /\ \A k \in Visited : BadFile(k) => console[k].event # "loaded"
    /\ dfs = RunWithoutBad(SelectSeq(m_read, IsGoodRead))

\* C4 as stated: a bad file contributes nothing, every other file is visited
\* and processed, the rows are those of the run without the bad files, and
\* the run succeeds when at least one valid file exists.
C4_BadFilesSkippedRunSucceeds ==
    MergeDone =>
        /\ C4_Common
        /\ \A k \in Visited : ~BadFile(k) => console[k].event = "loaded"
        /\ (\E k \in Visited : ~BadFile(k)) => m_result = Some(TRUE)

\* C4 amended: ... every other file is visited, and processed when the year
\* filter of process_file accepts its year; the run succeeds when at least
\* one valid file with an accepted year exists.
C4_BadFilesSkippedRunSucceedsForSelectedYears ==
    MergeDone =>
        /\ C4_Common
        /\ \A k \in Visited : (~BadFile(k) /\ YearSelected(NameYear(k)[1])) =>
              console[k].event = "loaded"
        /\ (\E k \in Visited : ~BadFile(k) /\ YearSelected(NameYear(k)[1])) =>
              m_result = Some(TRUE)

\* a file without a year came first, an unreadable file second, a valid file
\* last, and the run succeeded with the valid file's rows
C4_Witness ==
    /\ MergeDone /\ Len(console) = 3
    /\ console[1].event = "no_year"
    /\ console[2].event = "unreadable"
    /\ console[3].event = "loaded"
    /\ m_result = Some(TRUE)
    /\ Len(dfs) = 1 /\ dfs[1].rows # <<>>

\* C10: a transformation that raises is caught for the file: process_file
\* returns a dataframe in which no row has latitude/longitude, the file and
\* its year are counted as processed, and the run goes on and returns True,
\* also when the file contributes no row.
C10_TransformFailureIsLocal ==
    \A k \in Visited : m_read[k].raises =>
        /\ console[k].event = "loaded" /\ console[k].loaded = 0
        /\ LoadedUpTo(k) <= Len(dfs)
        /\ \A q \in 1..Len(dfs[LoadedUpTo(k)].rows) :
              ~HasCoords(dfs[LoadedUpTo(k)].rows[q])
        /\ dfs[LoadedUpTo(k)].rows = <<>>
        /\ "latitude" \in dfs[LoadedUpTo(k)].columns
        /\ Len(years_processed) = Len(dfs)
        /\ years_processed[LoadedUpTo(k)] = NameYear(k)[1]
        /\ m_pc \in {"loop", "done"}
        /\ m_pc = "done" => m_result = Some(TRUE) /\ writes = 1

\* the only processed file raised in the transformation; the run returned
\* True and wrote an output without rows
C10_Witness ==
    /\ m_pc = "done" /\ Len(console) = 1
    /\ m_read[1].raises
    /\ m_result = Some(TRUE) /\ writes = 1
    /\ output[1].rows = <<>>

(***************************************************************************)
(* csv_to_json.py: convert_csv_to_compressed_json.                         *)
(* A float is held in units of 10^-7 (seven decimals).                     *)
(***************************************************************************)
Pow10(k) == CASE k = 0 -> 1 [] k = 1 -> 10 [] k = 2 -> 100 [] k = 3 -> 1000
              [] k = 4 -> 10000 [] k = 5 -> 100000 [] k = 6 -> 1000000
              [] OTHER -> 10000000

\* float(text): None stands for ValueError
ParseFloat(text) ==
    LET s == Strip(text)
        dots == {k \in 1..Len(s) : s[k] = "."}
        d == IF dots = {} THEN Len(s) + 1 ELSE CHOOSE k \in dots : TRUE
        ip == SubSeq(s, 1, d - 1)
        fp == SubSeq(s, d + 1, Len(s))
    IN  IF \/ Cardinality(dots) > 1
           \/ Len(ip) + Len(fp) = 0
           \/ Len(fp) > 7
           \/ \E k \in 1..Len(ip) : ~IsDigit(ip[k])
           \/ \E k \in 1..Len(fp) : ~IsDigit(fp[k])
        THEN None
        ELSE Some(DigitsToInt(ip) * Pow10(7) + DigitsToInt(fp) * Pow10(7 - Len(fp)))

\* int(text): None stands for ValueError
ParseInt(text) ==
    LET s == Strip(text)
    IN  IF s # <<>> /\ \A k \in 1..Len(s) : IsDigit(s[k])
        THEN Some(DigitsToInt(s))
        ELSE None

Round6Not(v) == v

\* round(v, 6); an exact tie goes to the even sixth decimal
Round6(v) ==
    LET r == v % 10
        down == v - r
    IN  IF r < 5 THEN down
        ELSE IF r > 5 THEN down + 10
        ELSE IF (down \div 10) % 2 = 0 THEN down ELSE down + 10

\* the object appended to data (the descriptive text fields are left out)
RowObject(lat, lon, year) ==
    [latitude |-> Round6(lat), longitude |-> Round6(lon), year |-> year]

\* the body of the for loop: the objects one row adds to data
RowData(row) ==
    LET lat == ParseFloat(row.latitude)
        lon == ParseFloat(row.longitude)
        year == ParseInt(row.year)
    IN  IF lat = None \/ lon = None \/ year = None THEN <<>>
        ELSE IF lat[1] # 0 /\ lon[1] # 0
        THEN <<RowObject(lat[1], lon[1], year[1])>>
        ELSE <<>>

RECURSIVE ReadRows(_)
ReadRows(rows) ==
    IF rows = <<>> THEN <<>> ELSE RowData(Head(rows)) \o ReadRows(Tail(rows))

\* repr of a float: the shortest decimal, at least one fractional digit
RECURSIVE DropZeros(_)
DropZeros(s) ==
    IF Len(s) > 1 /\ s[Len(s)] = "0" THEN DropZeros(SubSeq(s, 1, Len(s) - 1)) ELSE s

RECURSIVE PadLeft(_, _)
PadLeft(s, n) == IF Len(s) >= n THEN s ELSE PadLeft(<<"0">> \o s, n)

FormatFloat(v) ==
    IntToDigits(v \div Pow10(7)) \o <<".">>
        \o DropZeros(PadLeft(IntToDigits(v % Pow10(7)), 7))

\* json.dumps(data, separators=(',', ':')): the text, token by token
ObjectTokens(o) ==
    << <<"{">>, <<"latitude">>, <<":">>, FormatFloat(o.latitude), <<",">>,
       <<"longitude">>, <<":">>, FormatFloat(o.longitude), <<",">>,
       <<"year">>, <<":">>, IntToDigits(o.year), <<"}">> >>

RECURSIVE ObjectsTokens(_)
ObjectsTokens(data) ==
    IF data = <<>> THEN <<>>
    ELSE ObjectTokens(Head(data))
         \o (IF Len(data) > 1 THEN << <<",">> >> ELSE <<>>)
         \o ObjectsTokens(Tail(data))

dumps(data) == << <<"[">> >> \o ObjectsTokens(data) \o << <<"]">> >>

\* json.loads on the text of dumps: objects of 13 tokens, separated by commas
RECURSIVE LoadObjects(_)
LoadObjects(toks) ==
    IF Len(toks) < 13 THEN <<>>
    ELSE << [latitude |-> ParseFloat(toks[4])[1],
             longitude |-> ParseFloat(toks[8])[1],
             year |-> ParseInt(toks[12])[1]] >>
         \o LoadObjects(SubSeq(toks, 15, Len(toks)))

loads(toks) == LoadObjects(SubSeq(toks, 2, Len(toks) - 1))

\* gzip: a lossless coding of the text, here runs of equal tokens
RECURSIVE Compressed(_)
Compressed(toks) ==
    IF toks = <<>> THEN <<>>
    ELSE LET rest == Compressed(Tail(toks))
         IN  IF rest # <<>> /\ rest[1].token = Head(toks)
             THEN <<[token |-> Head(toks), run |-> rest[1].run + 1]>> \o Tail(rest)
             ELSE <<[token |-> Head(toks), run |-> 1]>> \o rest

RECURSIVE Decompressed(_)
Decompressed(runs) ==
    IF runs = <<>> THEN <<>>
    ELSE [k \in 1..Head(runs).run |-> Head(runs).token] \o Decompressed(Tail(runs))

\* cell texts of the merged CSV: to_csv writes a missing value as the empty text
LatCells == {<<>>, <<"0", ".", "0">>, <<"4", "6", ".", "0", "5", "1", "2", "3", "4", "4">>, <<"4", "5", ".", "9">>}
LonCells == {<<"a", "b">>, <<"1", "4", ".", "5", "0", "5", "7", "5", "1", "6">>, <<"0">>}
YearCells == {<<"2", "0", "1", "5">>, <<"2", "0", "1", "5", ".", "0">>}

ExportRows ==
    {[latitude |-> a, longitude |-> b, year |-> c] :
        a \in LatCells, b \in LonCells, c \in YearCells}

ExportInit ==
    /\ DefaultConfig
    /\ x_pc = "ready"
    /\ x_csv \in SeqsUpTo(ExportRows, MaxExportRows)
    /\ x_gz = None
    /\ x_back = None
    /\ IdleConvert /\ IdleMerge /\ IdleFetch /\ IdleFix

\* convert_csv_to_compressed_json(csv_file)
ConvertCsv ==
    /\ x_pc = "ready"
    /\ x_gz' = Some(Compressed(dumps(ReadRows(x_csv))))
    /\ x_pc' = "written"
    /\ UNCHANGED <<x_csv, x_back>>
    /\ UNCHANGED <<cfgVars, cvVars, mVars, fVars, fxVars>>

\* a consumer: gunzip, then parse the JSON text
ReadBack ==
    /\ x_pc = "written"
    /\ x_back' = Some(loads(Decompressed(x_gz[1])))
    /\ x_pc' = "read"
    /\ UNCHANGED <<x_csv, x_gz>>
    /\ UNCHANGED <<cfgVars, cvVars, mVars, fVars, fxVars>>

ExportNext == ConvertCsv \/ ReadBack

SpecExport == ExportInit /\ [][ExportNext]_vars

(***************************************************************************)
(* Claim about the exporter (SpecExport).                                  *)
(***************************************************************************)
\* the coordinate a cell stands for, rounded to six decimals, in units of
\* 10^-7, stated cell by cell; none for an empty, a non-numeric or a zero cell
RoundedCoordinate(cell) ==
    CASE cell = <<"4", "6", ".", "0", "5", "1", "2", "3", "4", "4">> -> Some(460512340)
      [] cell = <<"4", "5", ".", "9">> -> Some(459000000)
      [] cell = <<"1", "4", ".", "5", "0", "5", "7", "5", "1", "6">> -> Some(145057520)
      [] OTHER -> None

YearOf(cell) == IF cell = <<"2", "0", "1", "5">> THEN Some(2015) ELSE None

Qualifies(row) ==
    /\ RoundedCoordinate(row.latitude) # None
    /\ RoundedCoordinate(row.longitude) # None
    /\ YearOf(row.year) # None

\* the same, with a zero cell counted as a coordinate
RoundedNumber(cell) ==
    IF cell \in {<<"0", ".", "0">>, <<"0">>} THEN Some(0) ELSE RoundedCoordinate(cell)

IsNumberRow(row) ==
    /\ RoundedNumber(row.latitude) # None
    /\ RoundedNumber(row.longitude) # None
    /\ YearOf(row.year) # None

FetchStartYear == 1995
\* END_YEAR, with the length of the range as the bound of the model
FetchEndYear == FetchStartYear + MaxFetchYears - 1

AfterErrorAbort(year) == FetchEndYear + 1

\* an except clause ends the pass; the for loop takes the next year
AfterError(year) == year + 1

\* where the loop stands once `year` is taken from the range
PcOf(year) == IF year > FetchEndYear THEN "done" ELSE "download"

FetchInit ==
    /\ DefaultConfig
    /\ f_year = FetchStartYear
    /\ f_pc = PcOf(FetchStartYear)
    /\ f_attempts = <<>>
    /\ f_zips = {}
    /\ f_extracted = {}
    /\ f_errors = <<>>
    /\ IdleConvert /\ IdleMerge /\ IdleExport /\ IdleFix

\* urllib.request.urlretrieve(zip_url, zip_path) returns
DownloadOk ==
    /\ f_pc = "download"
    /\ f_attempts' = Append(f_attempts, f_year)
    /\ f_zips' = f_zips \cup {f_year}
    /\ f_pc' = "unzip"
    /\ UNCHANGED <<f_year, f_extracted, f_errors>>
    /\ UNCHANGED <<cfgVars, cvVars, mVars, xVars, fxVars>>

\* urlretrieve raises: HTTPError, or another error (URLError, ...)
DownloadFails ==
    /\ f_pc = "download"
    /\ \E kind \in {"HTTP", "other"} :
          f_errors' = Append(f_errors, [year |-> f_year, kind |-> kind])
    /\ f_attempts' = Append(f_attempts, f_year)
    /\ f_year' = AfterError(f_year)
    /\ f_pc' = PcOf(AfterError(f_year))
    /\ UNCHANGED <<f_zips, f_extracted>>
    /\ UNCHANGED <<cfgVars, cvVars, mVars, xVars, fxVars>>

\* ZipFile(zip_path).extractall(OUTPUT_DIR) returns
UnzipOk ==
    /\ f_pc = "unzip"
    /\ f_extracted' = f_extracted \cup {f_year}
    /\ f_pc' = "delete"
    /\ UNCHANGED <<f_year, f_attempts, f_zips, f_errors>>
    /\ UNCHANGED <<cfgVars, cvVars, mVars, xVars, fxVars>>

\* ZipFile / extractall raises: BadZipFile, FileNotFoundError or another error
UnzipFails ==
    /\ f_pc = "unzip"
    /\ \E kind \in {"Not a valid zip file", "File not found", "other"} :
          f_errors' = Append(f_errors, [year |-> f_year, kind |-> kind])
    /\ f_year' = AfterError(f_year)
    /\ f_pc' = PcOf(AfterError(f_year))
    /\ UNCHANGED <<f_attempts, f_zips, f_extracted>>
    /\ UNCHANGED <<cfgVars, cvVars, mVars, xVars, fxVars>>

\* os.remove(zip_path), then the next pass of the loop
DeleteZip ==
    /\ f_pc = "delete"
    /\ f_zips' = f_zips \ {f_year}
    /\ f_year' = f_year + 1
    /\ f_pc' = PcOf(f_year + 1)
    /\ UNCHANGED <<f_attempts, f_extracted, f_errors>>
    /\ UNCHANGED <<cfgVars, cvVars, mVars, xVars, fxVars>>

FetchNext == DownloadOk \/ DownloadFails \/ UnzipOk \/ UnzipFails \/ DeleteZip

\* the script runs on: every call returns or raises
SpecFetch == FetchInit /\ [][FetchNext]_vars /\ WF_vars(FetchNext)

(***************************************************************************)
(* Claim about the fetcher (SpecFetch).                                    *)
(***************************************************************************)
FetchSafe ==
    /\ \A k \in 1..Len(f_attempts) : f_attempts[k] = FetchStartYear + k - 1
    /\ f_pc = "done" => Len(f_attempts) = FetchEndYear - FetchStartYear + 1
    /\ \A k \in 1..Len(f_errors) : f_errors[k].year \in FetchStartYear..FetchEndYear
    /\ \A y \in f_extracted : (y < f_year \/ f_pc = "done") => y \notin f_zips

FileContents == {[form |-> "raw", via |-> "", decodable |-> S] : S \in SUBSET Encodings}

Rewritten(content, encoding) ==
    [form |-> "utf-8", via |-> encoding, decodable |-> Encodings]

\* the loop over encodings_to_try of fix_encoding_simple
used_encoding(content) == FirstDecodable(encodings_to_try, content.decodable)

FixInit ==
    /\ DefaultConfig
    /\ \E n \in 0..MaxFixFiles : fx_disk \in [1..n -> FileContents]
    /\ fx_orig = fx_disk
    /\ fx_todo = {}
    /\ fx_used = <<>>
    /\ fx_pc = "start"
    /\ IdleConvert /\ IdleMerge /\ IdleExport /\ IdleFetch

\* glob.glob("*.csv") is empty
FixNoFiles ==
    /\ fx_pc = "start" /\ DOMAIN fx_disk = {}
    /\ fx_pc' = "done"
    /\ UNCHANGED <<fx_disk, fx_orig, fx_todo, fx_used>>
    /\ UNCHANGED <<cfgVars, cvVars, mVars, xVars, fVars>>

FixStart ==
    /\ fx_pc = "start" /\ DOMAIN fx_disk # {}
    /\ fx_todo' = DOMAIN fx_disk
    /\ fx_used' = [f \in DOMAIN fx_disk |-> None]
    /\ fx_pc' = "loop"
    /\ UNCHANGED <<fx_disk, fx_orig>>
    /\ UNCHANGED <<cfgVars, cvVars, mVars, xVars, fVars>>

\* fix_encoding_simple(csv_file): an encoding decodes, the file is rewritten
FixOne ==
    /\ fx_pc = "loop"
    /\ \E f \in fx_todo :
        /\ used_encoding(fx_disk[f]) # None
        /\ fx_used' = [fx_used EXCEPT ![f] = used_encoding(fx_disk[f])]
        /\ fx_disk' = [fx_disk EXCEPT ![f] = Rewritten(fx_disk[f], used_encoding(fx_disk[f])[1])]
        /\ fx_todo' = fx_todo \ {f}
    /\ UNCHANGED <<fx_orig, fx_pc>>
    /\ UNCHANGED <<cfgVars, cvVars, mVars, xVars, fVars>>

\* fix_encoding_simple(csv_file): no encoding decodes, nothing is written
FixUnreadable ==
    /\ fx_pc = "loop"
    /\ \E f \in fx_todo :
        /\ used_encoding(fx_disk[f]) = None
        /\ fx_todo' = fx_todo \ {f}
    /\ UNCHANGED <<fx_disk, fx_orig, fx_used, fx_pc>>
    /\ UNCHANGED <<cfgVars, cvVars, mVars, xVars, fVars>>

FixFinish ==
    /\ fx_pc = "loop" /\ fx_todo = {}
    /\ fx_pc' = "done"
    /\ UNCHANGED <<fx_disk, fx_orig, fx_todo, fx_used>>
    /\ UNCHANGED <<cfgVars, cvVars, mVars, xVars, fVars>>

FixNext == FixNoFiles \/ FixStart \/ FixOne \/ FixUnreadable \/ FixFinish

SpecFix == FixInit /\ [][FixNext]_vars

(***************************************************************************)
(* Claim about the two encoding fallbacks (SpecFix).                       *)
(***************************************************************************)
\* C8: for every file the fixer has visited, the encoding it used is the one
\* the loader's fallback selects for the same bytes (or both select none),
\* and a file the fixer could not decode is left as it was.
C8_SameEncodingSelected ==
    fx_pc \in {"loop", "done"} =>
        \A f \in (DOMAIN fx_disk) \ fx_todo :
            /\ fx_used[f] = ReadEncoding(fx_orig[f])
            /\ fx_used[f] = None => fx_disk[f] = fx_orig[f]

=============================================================================
